---------------------------- MODULE Spec2Model ----------------------------
(*
  A model of app/main.py: the Ship and Battleship classes.

  A coordinate is a pair <<row, column>> (Python's location[0], location[1]
  are [1] and [2] here).  A Ship object is a record [is_drowned, decks] and
  lives in the heap under the index of the spec that built it; the field
  dictionary maps a coordinate to that index (Python's shared reference,
  compared by identity).  A raised exception is a record [type, msg].
*)
EXTENDS Integers, Sequences, FiniteSets, TLC

VARIABLES
    ships,       \* the argument of Battleship.__init__
    pc,          \* "new": not constructed; "ready": __init__ returned; "failed": __init__ raised
    raised,      \* the exception __init__ raised (type "" when none)
    field,       \* Battleship.field: coordinate -> ship
    heap,        \* the Ship objects built so far: index -> [is_drowned, decks]
    location,    \* the argument of the last Battleship.fire call (<<>> before any)
    result,      \* what the last Battleship.fire call returned ("" before any)
    deck_was_alive \* history: the deck at location was alive when that call started

vars == <<ships, pc, raised, field, heap, location, result, deck_was_alive>>

-----------------------------------------------------------------------------
(* Program constants *)

FIELD_SIZE == 10

\* (size, expected_count, verbose_name) of _validate_ship_count, in its order
FleetRules ==
    << [size |-> 1, expected_count |-> 4, verbose_name |-> "single"],
       [size |-> 2, expected_count |-> 3, verbose_name |-> "double"],
       [size |-> 3, expected_count |-> 2, verbose_name |-> "three"],
       [size |-> 4, expected_count |-> 1, verbose_name |-> "four"] >>

(* Bounds of the model *)

\* an endpoint of a replaced spec lies at most this far past the other one
MaxSpan == 4

\* fire is called at rows -1..FireRowMax and columns -1..FireColMax
FireRowMax == 2

FireColMax == 5

-----------------------------------------------------------------------------
(* Exceptions *)

NoException == [type |-> "", msg |-> ""]

InvalidCoordsException ==
    [type |-> "InvalidCoordsException",
     msg |-> "coords passed to Ship() are not valid"]

InvalidFieldException(msg) ==
    [type |-> "InvalidFieldException", msg |-> msg]

\* the f-string of Battleship.__init__
CellTakenMessage(coord) ==
    "cell (" \o ToString(coord[1]) \o ", " \o ToString(coord[2])
        \o ") is already taken"

\* the f-string of _validate_ship_count
ShipCountMessage(expected_count, verbose_name) ==
    "there should be " \o ToString(expected_count) \o " " \o verbose_name
        \o "-deck ship" \o (IF expected_count # 1 THEN "s" ELSE "")

-----------------------------------------------------------------------------
(* class Deck, class Ship *)

Deck(row, column, is_alive) ==
    [row |-> row, column |-> column, is_alive |-> is_alive]

\* Python's list(range(a, b)): empty when b <= a
Range(a, b) == [k \in 1..(b - a) |-> a + k - 1]

\* Ship.__init__: the new object, or the exception it raises
Ship(start, end, is_drowned) ==
    IF start[1] = end[1]
    THEN [raised |-> NoException,
          is_drowned |-> is_drowned,
          decks |-> LET columns == Range(start[2], end[2] + 1)
                    IN [k \in 1..Len(columns) |->
                           Deck(start[1], columns[k], ~is_drowned)]]
    ELSE IF start[2] = end[2]
    THEN [raised |-> NoException,
          is_drowned |-> is_drowned,
          decks |-> LET rows == Range(start[1], end[1] + 1)
                    IN [k \in 1..Len(rows) |->
                           Deck(rows[k], start[2], ~is_drowned)]]
    ELSE [raised |-> InvalidCoordsException,
          is_drowned |-> is_drowned,
          decks |-> <<>>]

\* Ship.get_deck: the index of the first deck at (row, column), 0 for None
GetDeck(ship, row, column) ==
    LET found == {k \in 1..Len(ship.decks) :
                    ship.decks[k].row = row /\ ship.decks[k].column = column}
    IN IF found = {} THEN 0
       ELSE CHOOSE k \in found : \A j \in found : k <= j

AllDecksDead(decks) == \A k \in 1..Len(decks) : ~decks[k].is_alive

AttributeError ==
    [type |-> "AttributeError",
     msg |-> "'NoneType' object has no attribute 'is_alive'"]

\* Ship.fire with any() for all(): sunk as soon as one deck is dead
ShipFireAny(ship, row, column) ==
    LET k == GetDeck(ship, row, column)
    IN IF k = 0
       THEN [ship |-> ship, ret |-> FALSE, raised |-> AttributeError]
       ELSE LET decks == [ship.decks EXCEPT ![k].is_alive = FALSE]
            IN IF \E j \in 1..Len(decks) : ~decks[j].is_alive
               THEN [ship |-> [ship EXCEPT !.decks = decks, !.is_drowned = TRUE],
                     ret |-> TRUE, raised |-> NoException]
               ELSE [ship |-> [ship EXCEPT !.decks = decks],
                     ret |-> FALSE, raised |-> NoException]

\* Ship.fire testing the decks before it marks the one fired at
ShipFireCheckFirst(ship, row, column) ==
    LET k == GetDeck(ship, row, column)
    IN IF k = 0
       THEN [ship |-> ship, ret |-> FALSE, raised |-> AttributeError]
       ELSE LET decks == [ship.decks EXCEPT ![k].is_alive = FALSE]
            IN IF AllDecksDead(ship.decks)
               THEN [ship |-> [ship EXCEPT !.decks = decks, !.is_drowned = TRUE],
                     ret |-> TRUE, raised |-> NoException]
               ELSE [ship |-> [ship EXCEPT !.decks = decks],
                     ret |-> FALSE, raised |-> NoException]

\* Ship.fire without the assignment to is_drowned
ShipFireNoFlag(ship, row, column) ==
    LET k == GetDeck(ship, row, column)
    IN IF k = 0
       THEN [ship |-> ship, ret |-> FALSE, raised |-> AttributeError]
       ELSE LET decks == [ship.decks EXCEPT ![k].is_alive = FALSE]
            IN [ship |-> [ship EXCEPT !.decks = decks],
                ret |-> AllDecksDead(decks), raised |-> NoException]

\* Ship.fire flipping is_alive instead of clearing it
ShipFireToggle(ship, row, column) ==
    LET k == GetDeck(ship, row, column)
    IN IF k = 0
       THEN [ship |-> ship, ret |-> FALSE, raised |-> AttributeError]
       ELSE LET decks == [ship.decks EXCEPT ![k].is_alive = ~@]
            IN IF AllDecksDead(decks)
               THEN [ship |-> [ship EXCEPT !.decks = decks, !.is_drowned = TRUE],
                     ret |-> TRUE, raised |-> NoException]
               ELSE [ship |-> [ship EXCEPT !.decks = decks],
                     ret |-> FALSE, raised |-> NoException]

\* Ship.fire marking every deck of the ship in the row fired at
ShipFireRow(ship, row, column) ==
    LET k == GetDeck(ship, row, column)
    IN IF k = 0
       THEN [ship |-> ship, ret |-> FALSE, raised |-> AttributeError]
       ELSE LET decks == [j \in 1..Len(ship.decks) |->
                            IF ship.decks[j].row = row
                            THEN [ship.decks[j] EXCEPT !.is_alive = FALSE]
                            ELSE ship.decks[j]]
            IN IF AllDecksDead(decks)
               THEN [ship |-> [ship EXCEPT !.decks = decks, !.is_drowned = TRUE],
                     ret |-> TRUE, raised |-> NoException]
               ELSE [ship |-> [ship EXCEPT !.decks = decks],
                     ret |-> FALSE, raised |-> NoException]

\* Ship.fire: the ship after the call, what it returns, and what it raises
\* (get_deck returning None makes the assignment an AttributeError)
ShipFire(ship, row, column) ==
    LET k == GetDeck(ship, row, column)
    IN IF k = 0
       THEN [ship |-> ship, ret |-> FALSE, raised |-> AttributeError]
       ELSE LET decks == [ship.decks EXCEPT ![k].is_alive = FALSE]
            IN IF AllDecksDead(decks)
               THEN [ship |-> [ship EXCEPT !.decks = decks, !.is_drowned = TRUE],
                     ret |-> TRUE, raised |-> NoException]
               ELSE [ship |-> [ship EXCEPT !.decks = decks],
                     ret |-> FALSE, raised |-> NoException]

-----------------------------------------------------------------------------
(* class Battleship *)

\* the inner loop without the test for a taken cell: the later ship wins
RECURSIVE PlaceDecksOverwrite(_, _, _, _)
PlaceDecksOverwrite(fld, decks, id, k) ==
    IF k > Len(decks)
    THEN [raised |-> NoException, field |-> fld]
    ELSE LET coord == <<decks[k].row, decks[k].column>>
         IN PlaceDecksOverwrite((coord :> id) @@ fld, decks, id, k + 1)

\* the inner loop of Battleship.__init__ from deck k on: every deck of the
\* ship `id` is entered in the field unless its cell is taken
RECURSIVE PlaceDecks(_, _, _, _)
PlaceDecks(fld, decks, id, k) ==
    IF k > Len(decks)
    THEN [raised |-> NoException, field |-> fld]
    ELSE LET coord == <<decks[k].row, decks[k].column>>
         IN IF coord \in DOMAIN fld
            THEN [raised |-> InvalidFieldException(CellTakenMessage(coord)),
                  field |-> fld]
            ELSE PlaceDecks((coord :> id) @@ fld, decks, id, k + 1)

\* the outer loop of Battleship.__init__ from spec i on
RECURSIVE PlaceShips(_, _, _, _)
PlaceShips(specs, i, fld, hp) ==
    IF i > Len(specs)
    THEN [raised |-> NoException, field |-> fld, heap |-> hp]
    ELSE LET ship == Ship(specs[i][1], specs[i][2], FALSE)
         IN IF ship.raised # NoException
            THEN [raised |-> ship.raised, field |-> fld, heap |-> hp]
            ELSE LET obj == [is_drowned |-> ship.is_drowned, decks |-> ship.decks]
                     placed == PlaceDecks(fld, ship.decks, i, 1)
                 IN IF placed.raised # NoException
                    THEN [raised |-> placed.raised, field |-> placed.field,
                          heap |-> (i :> obj) @@ hp]
                    ELSE PlaceShips(specs, i + 1, placed.field, (i :> obj) @@ hp)

\* set(self.field.values())
FieldShips(fld) == {fld[c] : c \in DOMAIN fld}

\* the loop of _validate_ship_count from rule n on
RECURSIVE CheckFleetRules(_, _, _)
CheckFleetRules(fleet, hp, n) ==
    IF n > Len(FleetRules)
    THEN NoException
    ELSE LET rule == FleetRules[n]
             counter == Cardinality({s \in fleet : Len(hp[s].decks) = rule.size})
         IN IF counter # rule.expected_count
            THEN InvalidFieldException(
                     ShipCountMessage(rule.expected_count, rule.verbose_name))
            ELSE CheckFleetRules(fleet, hp, n + 1)

\* _validate_ship_count counting self.field.values(), not the set of them
ValidateShipCountCells(fld, hp) ==
    LET fleet == FieldShips(fld)
    IN IF Cardinality(DOMAIN fld) # 10
       THEN InvalidFieldException("the total number of the ships should be 10")
       ELSE CheckFleetRules(fleet, hp, 1)

\* Battleship._validate_ship_count
ValidateShipCount(fld, hp) ==
    LET fleet == FieldShips(fld)
    IN IF Cardinality(fleet) # 10
       THEN InvalidFieldException("the total number of the ships should be 10")
       ELSE CheckFleetRules(fleet, hp, 1)

\* _validate_ship_positions looking at the four side neighbours only
ValidateShipPositionsOrthogonal(fld) ==
    IF \E cell \in DOMAIN fld : \E row_adj \in -1..1 : \E column_adj \in -1..1 :
          LET coord == <<cell[1] + row_adj, cell[2] + column_adj>>
          IN /\ row_adj = 0 \/ column_adj = 0
             /\ coord \in DOMAIN fld /\ fld[coord] # fld[cell]
    THEN InvalidFieldException(
             "ships shouldn't be located in the neighboring cells")
    ELSE NoException

\* Battleship._validate_ship_positions
ValidateShipPositions(fld) ==
    IF \E cell \in DOMAIN fld : \E row_adj \in -1..1 : \E column_adj \in -1..1 :
          LET coord == <<cell[1] + row_adj, cell[2] + column_adj>>
          IN coord \in DOMAIN fld /\ fld[coord] # fld[cell]
    THEN InvalidFieldException(
             "ships shouldn't be located in the neighboring cells")
    ELSE NoException

\* Battleship._validate_field
ValidateField(fld, hp) ==
    LET count == ValidateShipCount(fld, hp)
    IN IF count # NoException THEN count ELSE ValidateShipPositions(fld)

\* Battleship.__init__
BattleshipInit(specs) ==
    LET placed == PlaceShips(specs, 1, <<>>, <<>>)
    IN IF placed.raised # NoException
       THEN placed
       ELSE [placed EXCEPT !.raised = ValidateField(placed.field, placed.heap)]

KeyError == [type |-> "KeyError", msg |-> "location"]

\* Battleship.fire testing the grid's bounds, not the field's keys: a free
\* cell of the grid is looked up
BattleshipFireBounds(fld, hp, loc) ==
    IF ~(loc[1] \in 0..(FIELD_SIZE - 1) /\ loc[2] \in 0..(FIELD_SIZE - 1))
    THEN [result |-> "Miss!", heap |-> hp, raised |-> NoException]
    ELSE IF loc \notin DOMAIN fld
    THEN [result |-> "", heap |-> hp, raised |-> KeyError]
    ELSE LET fired == ShipFire(hp[fld[loc]], loc[1], loc[2])
         IN [result |-> IF fired.raised # NoException THEN ""
                        ELSE IF fired.ret THEN "Sunk!" ELSE "Hit!",
             heap |-> [hp EXCEPT ![fld[loc]] = fired.ship],
             raised |-> fired.raised]

\* Battleship.fire: what it returns ("" when it raises), the ships after it
\* and what it raises
BattleshipFire(fld, hp, loc) ==
    IF loc \notin DOMAIN fld
    THEN [result |-> "Miss!", heap |-> hp, raised |-> NoException]
    ELSE LET fired == ShipFire(hp[fld[loc]], loc[1], loc[2])
         IN [result |-> IF fired.raised # NoException THEN ""
                        ELSE IF fired.ret THEN "Sunk!" ELSE "Hit!",
             heap |-> [hp EXCEPT ![fld[loc]] = fired.ship],
             raised |-> fired.raised]

-----------------------------------------------------------------------------
(* Inputs *)

\* a legal fleet on the 10 x 10 grid
BaseFleet ==
    << <<<<0, 0>>, <<0, 3>>>>, <<<<0, 5>>, <<0, 6>>>>, <<<<0, 8>>, <<0, 9>>>>,
       <<<<2, 0>>, <<4, 0>>>>, <<<<2, 4>>, <<2, 6>>>>, <<<<2, 8>>, <<2, 9>>>>,
       <<<<9, 9>>, <<9, 9>>>>, <<<<7, 7>>, <<7, 7>>>>, <<<<7, 9>>, <<7, 9>>>>,
       <<<<9, 7>>, <<9, 7>>>> >>

\* every (start, end) with start on the grid and end at most MaxSpan past it
\* or one before it, in each direction: aligned, reversed and diagonal pairs
SpecCandidates ==
    {<<<<r, c>>, <<r + dr, c + dc>>>> :
        r \in 0..(FIELD_SIZE - 1), c \in 0..(FIELD_SIZE - 1),
        dr \in -1..MaxSpan, dc \in -1..MaxSpan}

RemoveAt(s, i) == [k \in 1..(Len(s) - 1) |-> IF k < i THEN s[k] ELSE s[k + 1]]

\* the placement lists given to Battleship(): the base fleet with one spec
\* replaced, one spec added, one removed, or two swapped
BuildInputs ==
    {[BaseFleet EXCEPT ![i] = s] : i \in 1..Len(BaseFleet), s \in SpecCandidates}
    \cup {Append(BaseFleet, s) : s \in SpecCandidates}
    \cup {RemoveAt(BaseFleet, i) : i \in 1..Len(BaseFleet)}
    \cup {[BaseFleet EXCEPT ![i] = BaseFleet[j], ![j] = BaseFleet[i]] :
             i \in 1..Len(BaseFleet), j \in 1..Len(BaseFleet)}

\* a legal fleet with ships of every size in the corner that is fired at
FleetA ==
    << <<<<0, 0>>, <<0, 3>>>>, <<<<0, 5>>, <<0, 5>>>>, <<<<2, 0>>, <<2, 1>>>>,
       <<<<2, 3>>, <<2, 5>>>>, <<<<0, 8>>, <<0, 9>>>>, <<<<2, 8>>, <<2, 9>>>>,
       <<<<5, 0>>, <<5, 2>>>>, <<<<7, 0>>, <<7, 0>>>>, <<<<7, 2>>, <<7, 2>>>>,
       <<<<7, 4>>, <<7, 4>>>> >>

\* a legal fleet of vertical ships, given with an eleventh spec whose
\* endpoints are reversed
FleetB ==
    << <<<<0, 0>>, <<3, 0>>>>, <<<<0, 2>>, <<1, 2>>>>, <<<<0, 4>>, <<0, 4>>>>,
       <<<<3, 4>>, <<3, 2>>>>, <<<<2, 4>>, <<2, 4>>>>, <<<<3, 2>>, <<5, 2>>>>,
       <<<<5, 4>>, <<7, 4>>>>, <<<<5, 0>>, <<6, 0>>>>, <<<<8, 0>>, <<9, 0>>>>,
       <<<<9, 2>>, <<9, 2>>>>, <<<<9, 9>>, <<9, 9>>>> >>

\* FleetA with its second ship moved next to the first
FleetTouching == [FleetA EXCEPT ![2] = <<<<1, 4>>, <<1, 4>>>>]

FireInputs == {FleetA, FleetB, FleetTouching}

\* the coordinates fire is called at: a corner of the grid and the cells
\* just outside it
FireLocations == (-1..FireRowMax) \X (-1..FireColMax)

-----------------------------------------------------------------------------
(* The state machine *)

Blank ==
    /\ pc = "new"
    /\ raised = NoException
    /\ field = <<>>
    /\ heap = <<>>
    /\ location = <<>>
    /\ result = ""
    /\ deck_was_alive = FALSE

Init == ships \in FireInputs /\ Blank

InitBuild == ships \in BuildInputs /\ Blank

\* Battleship(ships)
Construct ==
    /\ pc = "new"
    /\ LET built == BattleshipInit(ships)
       IN /\ raised' = built.raised
          /\ pc' = IF built.raised = NoException THEN "ready" ELSE "failed"
          /\ field' = built.field
          /\ heap' = built.heap
    /\ UNCHANGED <<ships, location, result, deck_was_alive>>

DeckAlive(fld, hp, loc) ==
    /\ loc \in DOMAIN fld
    /\ \E k \in 1..Len(hp[fld[loc]].decks) :
          LET deck == hp[fld[loc]].decks[k]
          IN deck.row = loc[1] /\ deck.column = loc[2] /\ deck.is_alive

\* battleship.fire(loc)
Fire(loc) ==
    /\ pc = "ready"
    /\ LET fired == BattleshipFire(field, heap, loc)
       IN /\ result' = fired.result
          /\ heap' = fired.heap
          /\ raised' = fired.raised
    /\ location' = loc
    /\ deck_was_alive' = DeckAlive(field, heap, loc)
    /\ UNCHANGED <<ships, pc, field>>

Next ==
    \/ Construct
    \/ \E loc \in FireLocations : Fire(loc)

NextBuild == Construct

Spec == Init /\ [][Next]_vars

SpecBuild == InitBuild /\ [][NextBuild]_vars


-----------------------------------------------------------------------------
(* Vocabulary of the properties, stated independently of the operators above *)

Abs(n) == IF n < 0 THEN -n ELSE n

Min(a, b) == IF a <= b THEN a ELSE b

Max(a, b) == IF a <= b THEN b ELSE a

\* the endpoints share a row or a column
Aligned(spec) == spec[1][1] = spec[2][1] \/ spec[1][2] = spec[2][2]

\* start is not after end
Ordered(spec) == spec[1][1] <= spec[2][1] /\ spec[1][2] <= spec[2][2]

\* the cells of the inclusive range between the endpoints, in either order
Between(spec) ==
    {<<r, c>> : r \in Min(spec[1][1], spec[2][1])..Max(spec[1][1], spec[2][1]),
                c \in Min(spec[1][2], spec[2][2])..Max(spec[1][2], spec[2][2])}

\* two cells are equal or touch, diagonals included
Touching(a, b) == Abs(a[1] - b[1]) <= 1 /\ Abs(a[2] - b[2]) <= 1

OnGrid(coord) ==
    coord[1] \in 0..(FIELD_SIZE - 1) /\ coord[2] \in 0..(FIELD_SIZE - 1)

\* the coordinates of a ship's decks, and of those still alive
DeckCells(ship) ==
    {<<ship.decks[k].row, ship.decks[k].column>> : k \in 1..Len(ship.decks)}

AliveCells(ship) ==
    {<<ship.decks[k].row, ship.decks[k].column>> :
        k \in {j \in 1..Len(ship.decks) : ship.decks[j].is_alive}}

\* the ships of the board
Fleet == {field[c] : c \in DOMAIN field}

PartlyHit(ship) ==
    AliveCells(ship) # {} /\ AliveCells(ship) # DeckCells(ship)

\* a step of a constructed board: a call of fire at location'
FireStep == pc = "ready" /\ pc' = "ready"

-----------------------------------------------------------------------------
(* C1: on a constructed board, a fire at a still alive deck returns "Sunk!"
   when it is the ship's last alive deck and "Hit!" otherwise, whatever was
   fired at other ships before; so firing the decks of a ship once each, in
   any order, gives "Hit!" for all but the last and "Sunk!" for the last. *)
C1_HitUntilLastDeck ==
    [][(FireStep /\ location' \in DOMAIN field
            /\ location' \in AliveCells(heap[field[location']]))
        => /\ raised' = NoException
           /\ result' = IF AliveCells(heap[field[location']]) = {location'}
                        THEN "Sunk!" ELSE "Hit!"]_vars

\* the fourth deck of a four-deck ship was just sunk while another ship is
\* partly hit
C1_Witness ==
    /\ pc = "ready" /\ result = "Sunk!" /\ deck_was_alive
    /\ Len(heap[field[location]].decks) = 4
    /\ \E s \in Fleet : PartlyHit(heap[s])

(* C2: a fire at a coordinate that is no key of the field, on or off the
   grid, returns "Miss!", raises nothing and changes neither the field nor
   any deck or ship. *)
C2_MissChangesNothing ==
    [][(FireStep /\ location' \notin DOMAIN field)
        => /\ result' = "Miss!"
           /\ raised' = NoException
           /\ field' = field
           /\ heap' = heap]_vars

\* a miss off the grid, on a board that has been hit
C2_Witness ==
    /\ pc = "ready" /\ result = "Miss!" /\ ~OnGrid(location)
    /\ \E s \in Fleet : PartlyHit(heap[s])

(* C3: when construction returns, the field references exactly 10 ships,
   4 of one deck, 3 of two, 2 of three and 1 of four, on 20 cells, and no
   two cells of different ships are equal or touch. *)
C3_FleetInvariant ==
    pc = "ready" =>
        /\ Cardinality(Fleet) = 10
        /\ \A s \in Fleet :
              /\ Len(heap[s].decks) \in 1..4
              /\ DeckCells(heap[s]) = {c \in DOMAIN field : field[c] = s}
              /\ Cardinality(DeckCells(heap[s])) = Len(heap[s].decks)
        /\ \A n \in 1..4 :
              Cardinality({s \in Fleet : Len(heap[s].decks) = n}) = 5 - n
        /\ Cardinality(DOMAIN field) = 20
        /\ \A a \in DOMAIN field : \A b \in DOMAIN field :
              field[a] # field[b] => ~Touching(a, b)

\* a board built from a list of eleven specs
C3_Witness == pc = "ready" /\ Len(ships) = 11

\* a placement of the kind C7 is about
ValidPlacement(specs) ==
    /\ Len(specs) = 10
    /\ \A i \in 1..Len(specs) :
          /\ OnGrid(specs[i][1]) /\ OnGrid(specs[i][2])
          /\ Aligned(specs[i]) /\ Ordered(specs[i])
    /\ \A n \in 1..4 :
          Cardinality({i \in 1..Len(specs) :
                          Cardinality(Between(specs[i])) = n}) = 5 - n
    /\ \A i \in 1..Len(specs) : \A j \in 1..Len(specs) :
          i # j => \A a \in Between(specs[i]) : \A b \in Between(specs[j]) :
                      ~Touching(a, b)

(* C7: construction succeeds for every placement of 10 ships on the grid,
   start not after end, of sizes 4x1, 3x2, 2x3, 1x4, no two touching. *)
C7_ValidPlacementBuilds ==
    (pc # "new" /\ ValidPlacement(ships))
        => (pc = "ready" /\ raised = NoException)

\* a legal placement other than the base fleet was built
C7_Witness ==
    /\ pc = "ready" /\ ValidPlacement(ships)
    /\ \E i \in 1..Len(ships) : \A j \in 1..Len(BaseFleet) : ships[i] # BaseFleet[j]

\* the cells a spec covers as the constructor enumerates them: from start
\* up to end
Covered(spec) ==
    IF Aligned(spec)
    THEN {<<r, c>> : r \in spec[1][1]..spec[2][1], c \in spec[1][2]..spec[2][2]}
    ELSE {}

\* the cells spec j shares with the specs before it
SharedCells(specs, j) ==
    {c \in Covered(specs[j]) : \E i \in 1..(j - 1) : c \in Covered(specs[i])}

\* spec j is the first of the list to cover a cell an earlier spec covers,
\* and every spec before it shares a row or a column
FirstOverlap(specs, j) ==
    /\ SharedCells(specs, j) # {}
    /\ \A i \in 1..(j - 1) : SharedCells(specs, i) = {} /\ Aligned(specs[i])

(* C4, as claimed: when two specs cover the same coordinate, construction
   fails with the error kind CellAlreadyTaken, a kind other than the
   InvalidField kind of validation. *)
C4_OverlapRaisesCellAlreadyTaken ==
    (pc # "new" /\ \E j \in 1..Len(ships) : FirstOverlap(ships, j))
        => /\ pc = "failed"
           /\ raised.type = "CellAlreadyTaken"
           /\ raised.type # "InvalidFieldException"

(* C4, amended: when two specs cover the same coordinate and no spec before
   the later of the first such pair is misaligned, construction fails during
   placement, before validation, with InvalidFieldException and the message
   "cell (r, c) is already taken" for a shared cell: the kind validation
   raises too, told apart from it by the message alone. *)
C4_OverlapRaisesInvalidField ==
    \A j \in 1..Len(ships) :
        (pc # "new" /\ FirstOverlap(ships, j))
            => /\ pc = "failed"
               /\ raised.type = "InvalidFieldException"
               /\ \E c \in SharedCells(ships, j) : raised.msg = CellTakenMessage(c)

\* construction failed on a list whose replaced spec crosses an earlier ship
C4_Witness ==
    /\ pc = "failed"
    /\ \E j \in 1..Len(ships) :
          FirstOverlap(ships, j) /\ Cardinality(SharedCells(ships, j)) = 1
             /\ Cardinality(Covered(ships[j])) > 1

(* C5, as claimed: for endpoints sharing a row or a column, in either
   order, the ship's decks are exactly the cells of the inclusive range
   between them, |difference| + 1 decks and never none. *)
C5_DecksAreInclusiveRange ==
    \A i \in DOMAIN heap :
        Aligned(ships[i]) =>
            /\ DeckCells(heap[i]) = Between(ships[i])
            /\ Len(heap[i].decks) =
                  Abs(ships[i][2][1] - ships[i][1][1])
                      + Abs(ships[i][2][2] - ships[i][1][2]) + 1
            /\ Len(heap[i].decks) > 0

(* C6, as claimed: "Sunk!" is returned only by the call that takes the
   ship's sunk flag from false to true, so at most once per ship. *)
C6_SunkOnlyOnTransition ==
    [][(FireStep /\ result' = "Sunk!")
        => /\ location' \in DOMAIN field
           /\ ~heap[field[location']].is_drowned
           /\ heap'[field[location']].is_drowned]_vars

(* C6, amended: a fire at a deck returns "Sunk!" exactly when the ship's
   sunk flag is true after the call, that is when all its decks are then
   dead: on the call that sinks the ship and on every later call at one of
   its decks.  The flag itself goes from false to true at most once: it
   never goes back. *)
C6_SunkIffDrownedAfter ==
    [][FireStep
        => /\ result' = "Sunk!" <=>
                 (location' \in DOMAIN field
                     /\ AliveCells(heap'[field[location']]) = {})
           /\ result' = "Sunk!" => heap'[field[location']].is_drowned
           /\ \A s \in Fleet : heap[s].is_drowned => heap'[s].is_drowned]_vars

\* "Sunk!" again, from a deck of a ship of several decks that was sunk before
C6_Witness ==
    /\ pc = "ready" /\ result = "Sunk!" /\ ~deck_was_alive
    /\ Len(heap[field[location]].decks) > 1

(* C8: in every state of a constructed board a ship's sunk flag is true
   exactly when all its decks are dead. *)
C8_DrownedIffAllDecksDead ==
    pc = "ready" =>
        \A s \in Fleet : heap[s].is_drowned <=> AliveCells(heap[s]) = {}

\* one ship sunk, one partly hit, one untouched
C8_Witness ==
    /\ pc = "ready"
    /\ \E s \in Fleet : heap[s].is_drowned
    /\ \E s \in Fleet : PartlyHit(heap[s])
    /\ \E s \in Fleet : AliveCells(heap[s]) = DeckCells(heap[s])

(* C9: a fire at a deck that is already dead raises nothing, changes no
   deck and no ship, and returns "Sunk!" when the ship is sunk and "Hit!"
   when it still has an alive deck; the state being unchanged, a repeat
   returns the same. *)
C9_RefireIdempotent ==
    [][(FireStep /\ location' \in DOMAIN field
            /\ location' \notin AliveCells(heap[field[location']]))
        => /\ raised' = NoException
           /\ heap' = heap
           /\ field' = field
           /\ result' = IF heap[field[location']].is_drowned
                        THEN "Sunk!" ELSE "Hit!"]_vars

\* a dead deck of a ship that is not sunk was fired at again, on a board
\* with a sunk ship
C9_Witness ==
    /\ pc = "ready" /\ result = "Hit!" /\ ~deck_was_alive
    /\ location \in DOMAIN field
    /\ \E s \in Fleet : heap[s].is_drowned

(* C10: a fire at an occupied coordinate changes at most the alive flag of
   the deck at that coordinate, from true to false, and the sunk flag of its
   ship, from false to true; the field, the decks' coordinates and all other
   flags stay as they are. *)
C10_FireFrame ==
    [][(FireStep /\ location' \in DOMAIN field)
        => /\ field' = field
           /\ DOMAIN heap' = DOMAIN heap
           /\ \A s \in DOMAIN heap :
                 /\ Len(heap'[s].decks) = Len(heap[s].decks)
                 /\ \A k \in 1..Len(heap[s].decks) :
                       LET old == heap[s].decks[k]
                           new == heap'[s].decks[k]
                       IN /\ new.row = old.row /\ new.column = old.column
                          /\ new.is_alive # old.is_alive
                                => /\ s = field[location']
                                   /\ <<old.row, old.column>> = location'
                                   /\ old.is_alive /\ ~new.is_alive
                 /\ heap'[s].is_drowned # heap[s].is_drowned
                       => /\ s = field[location']
                          /\ ~heap[s].is_drowned /\ heap'[s].is_drowned]_vars

\* a deck was just hit on a board where another ship is sunk and a third
\* is untouched
C10_Witness ==
    /\ pc = "ready" /\ result = "Hit!" /\ deck_was_alive
    /\ \E s \in Fleet : s # field[location] /\ heap[s].is_drowned
    /\ \E s \in Fleet : AliveCells(heap[s]) = DeckCells(heap[s])

=============================================================================
